---- MODULE Spec2Model ----
(***************************************************************************)
(* Model of scan.py: the conversion of VectorBase population-biology       *)
(* records into SCAN Darwin Core rows.  make_scan() reads the raw records, *)
(* walks them in input order, writes one row per retained record to the    *)
(* staging file "<output>.temp", collects data problems, and replaces the  *)
(* final output with the staging file only when no problem was collected.  *)
(*                                                                         *)
(* Strings are TLA+ strings; split, join and replace are computed          *)
(* character by character as the Python built-ins compute them.            *)
(* Records are documents of the Solr query of make_scan, which asks for    *)
(* has_geodata:true and sample_size_i >= 1: sample_id_s, species,          *)
(* geo_coords and sample_size_i are present; sample_id_s is the unique key *)
(* and is modelled by the position of the record in the response.  A row   *)
(* holds the columns the properties below read; the other columns are      *)
(* copies or joins of single input fields.                                 *)
(***************************************************************************)
EXTENDS Integers, Sequences, FiniteSets, TLC

VARIABLES pc, sample, docs, i, problems, problem_tags,
          problem_first_species_terms, problem_third_species_terms,
          temp, output, stdout, outcome

\* pc       where the program is: parse_args, make_scan, loop, check, done,
\*          or the exception that ended it (ValueError, IndexError)
\* sample   the --sample argument, <<>> for None
\* docs     response["response"]["docs"]
\* i        the loop counter i of make_scan
\* problems, problem_tags, problem_first_species_terms,
\* problem_third_species_terms   the problem collector of make_scan
\* temp     the staging file output + ".temp"
\* output   the file at the final output path
\* stdout   what the end of make_scan has printed
\* outcome  for each record taken, how its iteration ended: "sampled out",
\*          "discarded", "IndexError" or "written"
vars == <<pc, sample, docs, i, problems, problem_tags,
          problem_first_species_terms, problem_third_species_terms,
          temp, output, stdout, outcome>>

(***************************************************************************)
(* Bounds                                                                  *)
(***************************************************************************)
\* Largest number of raw records in one response.
MaxDocs == 2

(***************************************************************************)
(* Configuration tables of scan.py                                         *)
(***************************************************************************)
output_rows ==
    <<"occurrenceID", "catalogNumber", "dataGeneralizations", "basisOfRecord",
      "individualCount", "sex", "lifeStage", "references", "recordedBy",
      "eventDate", "verbatimEventDate", "samplingProtocol", "country",
      "stateProvince", "locality", "decimalLatitude", "decimalLongitude",
      "identificationRemarks", "scientificName", "identificationQualifier",
      "occurrenceRemarks">>

transform_species_strings ==
    [s \in {"Anopheles gambiae x Anopheles coluzzii", "dirus species complex"} |->
        IF s = "dirus species complex" THEN "Anopheles dirus complex"
                                       ELSE "Anopheles gambiae sensu lato"]

valid_first_species_terms ==
    {"Aedeomyia", "Aedes", "Aedimorphus", "Anopheles", "Catageiomyia",
     "Ceratopogonidae", "Chironomidae", "Coquillettidia", "Culex", "Culicidae",
     "Culicinae", "Culiciomyia", "Culicoides", "Culiseta", "Eumelanomyia",
     "Lophoceraomyia", "Mansonia", "Mimomyia", "Oculeomyia", "Orthopodomyia",
     "Phlebotomus", "Psorophora", "Sergentomyia", "Simuliidae",
     "Toxorhynchites", "Uranotaenia", "Wyeomyia", "Avaritia", "Lutzomyia",
     "Melanoconion", "Ochlerotatus", "Deinocerites", "Anophelinae",
     "Amblyomma", "Dermacentor", "Ixodes", "Rhipicephalus", "Armigeres"}

subspecies_terms == {"japonicus", "arabiensis", "vexans", "S", "T", "pallens"}

group_terms ==
    {"morphological", "group", "complex", "sensu", "lato", "AD", "BCE",
     "subgroup"}

remove_tags == {"abundance", "viral surveillance"}

valid_provider_tags ==
    {"Anastasia Mosquito Control District Florida",
     "Marion County Public Health Department Indiana",
     "Hernando County Florida Mosquito Control",
     "Biogents Mosquito Surveillance",
     "Northwest Mosquito and Vector Control District",
     "Collier Mosquito Control District",
     "Iowa State Mosquito Surveillance",
     "Manatee County Florida Mosquito Control",
     "Cass County Vector Control District",
     "Salt Lake City Mosquito Abatement District",
     "Southern Nevada Health District",
     "Entomology Group Pirbright",
     "Orange County Florida Mosquito Control",
     "ICEMR",
     "Rhode Island Department of Environmental Management",
     "South Walton County Florida Mosquito Control",
     "Toledo Area Sanitary District",
     "Ada County Weed Pest and Mosquito Abatement",
     "Marion County Public Health Department, Indiana",
     "Lee County Mosquito Control",
     "Desplaines Valley Mosquito Abatement",
     "Anastasia Mosquito Control District, Florida",
     "Entomology Group, Pirbright",
     "Ada County Weed, Pest, and Mosquito Abatement",
     "DesPlaines Valley Mosquito Abatement",
     "Franklin County Public Health",
     "Commonwealth Scientific and Industrial Research Organisation",
     "North Dakota Department of Health",
     "Tarrant County Public Health Department",
     "Montana State Mosquito Surveillance",
     "City of Suffolk Mosquito Control",
     "Illinois Natural History Survey",
     "Norfolk County Mosquito Control",
     "Maryland Department of Agriculture",
     "Florida Keys Mosquito Control District",
     "Volusia County Mosquito Control"}

skip_provider_tags == {}

skip_protocols == {"BG-Counter trap catch"}

skip_projects == {}

(***************************************************************************)
(* Python built-ins used by make_scan                                      *)
(***************************************************************************)
\* str.split(): the maximal runs of non-whitespace characters, in order.
RECURSIVE SplitFrom(_, _, _)
SplitFrom(s, k, cur) ==
    IF k > Len(s)
    THEN IF cur = "" THEN <<>> ELSE <<cur>>
    ELSE IF SubSeq(s, k, k) = " "
         THEN IF cur = "" THEN SplitFrom(s, k + 1, "")
                          ELSE <<cur>> \o SplitFrom(s, k + 1, "")
         ELSE SplitFrom(s, k + 1, cur \o SubSeq(s, k, k))

split(s) == SplitFrom(s, 1, "")

\* sep.join(list)
RECURSIVE join(_, _)
join(sep, list) ==
    IF Len(list) = 0 THEN ""
    ELSE IF Len(list) = 1 THEN list[1]
    ELSE list[1] \o sep \o join(sep, Tail(list))

\* str.replace(old, new) for a one-character old
RECURSIVE ReplaceFrom(_, _, _, _)
ReplaceFrom(s, k, old, new) ==
    IF k > Len(s) THEN ""
    ELSE (IF SubSeq(s, k, k) = old THEN new ELSE SubSeq(s, k, k))
         \o ReplaceFrom(s, k + 1, old, new)

replace(s, old, new) == ReplaceFrom(s, 1, old, new)

\* any(s in set for s in list)
any_in(set, list) == \E k \in 1..Len(list) : list[k] \in set

\* [s for s in list if s not in set]
RECURSIVE not_in(_, _)
not_in(set, list) ==
    IF Len(list) = 0 THEN <<>>
    ELSE (IF Head(list) \in set THEN <<>> ELSE <<Head(list)>>)
         \o not_in(set, Tail(list))

(***************************************************************************)
(* Raw records                                                             *)
(***************************************************************************)
\* The species designations a record may carry (record["species"][0]).
SpeciesStrings ==
    {"Aedes aegypti", "genus Culex pallens", "Anopheles dirus complex",
     "Anopheles gambiae x Anopheles coluzzii", "Aedes vexans  vexans",
     "Aedes vexans nipponii x", "Foo bar",
     "Culex pipiens complex sensu lato", "genus", ""}

\* The tags_ss values a record may carry.
TagLists ==
    {<<"abundance", "viral surveillance">>, <<"abundance", "ICEMR">>,
     <<"ICEMR", "Unknown Lab">>, <<"ICEMR,Unknown Lab">>}

\* A record as the Solr response holds it: optional fields may be absent.
Doc(species, extra) ==
    extra @@ [species |-> <<species>>, geo_coords |-> "9.1,7.2"]

NoExtra == [geo_coords |-> "9.1,7.2"]

RawRecords ==
       {Doc(s, NoExtra) : s \in SpeciesStrings}
  \cup {Doc("Aedes aegypti", [tags_ss |-> t]) : t \in TagLists}
  \cup {Doc(s, [collection_protocols |-> <<"BG-Counter trap catch">>])
           : s \in {"Aedes aegypti", "Foo bar"}}
  \cup {Doc("Aedes aegypti", [collection_protocols |-> <<"light trap", "BG-Counter trap catch">>,
                              tags_ss |-> <<"Unknown Lab">>]),
        Doc("Aedes aegypti", [collection_protocols |-> <<"light trap">>,
                              projects |-> <<"VBP0000001", "VBP0000002">>])}

\* The responses: up to MaxDocs records, sample_id_s being the unique key.
Responses ==
    UNION {[1..n -> RawRecords] : n \in 0..MaxDocs}

\* --sample values given on the command line (None is <<>>).
None == <<>>
SampleArgs == {None, <<0>>, <<50>>, <<100>>, <<150>>}

\* Values of random.random(), in hundredths.
RandomValues == {0, 50, 99}

\* Files: a missing file, or a header and the data rows written after it.
NoFile == [exists |-> FALSE, header |-> <<>>, rows |-> <<>>]
\* The final output as an earlier run left it.
OldFile == [exists |-> TRUE, header |-> <<"old">>, rows |-> <<>>]

(***************************************************************************)
(* The body of the loop of make_scan, as functions of one record           *)
(***************************************************************************)
defaults ==
    [projects |-> <<"">>, country_s |-> "", adm1_s |-> "", adm2_s |-> "",
     collection_protocols |-> <<"">>, collection_day_s |-> "",
     collection_date_range |-> <<"">>, protocols |-> <<"">>,
     exp_citations_ss |-> <<"">>, sex_s |-> "", dev_stages_ss |-> <<"">>,
     project_authors_txt |-> <<"">>]

\* defaults.update(record); record = defaults
with_defaults(record) == record @@ defaults

\* random.random() >= sample / 100, evaluated only when sample is not None
sample_drops(smp, r) == smp # None /\ r >= smp[1]

\* tags_of without the removal of the discard-listed tags.
tags_of_unfiltered(record) ==
    IF "tags_ss" \in DOMAIN record THEN record.tags_ss ELSE <<>>

\* tags = [tag for tag in record["tags_ss"] if tag not in remove_tags]
tags_of(record) ==
    IF "tags_ss" \in DOMAIN record THEN not_in(remove_tags, record.tags_ss)
                                   ELSE <<>>

\* len(tags) > 0 and (len(tags) > 1 or tags[0] not in valid_provider_tags)
unexpected_tags(tags) ==
    Len(tags) > 0 /\ (Len(tags) > 1 \/ tags[1] \notin valid_provider_tags)

\* tag_check without the "not in problem_tags" test.
tag_check_every_record(record, st) ==
    LET tags == tags_of(record)
        tags_text == join(",", tags)
    IN IF unexpected_tags(tags)
       THEN [st EXCEPT !.problem_tags = @ \cup {tags_text},
                       !.problems = Append(@, [kind |-> "Unexpected tag(s)",
                                               tags |-> tags,
                                               at |-> record.sample_id_s])]
       ELSE st

\* The problems and problem_tags after the tag check of one record.
\* An entry stands for the formatted line: its text, the value formatted into
\* it (the tags list, or the species term) and the sample_id_s after "at".
tag_check(record, st) ==
    LET tags == tags_of(record)
        tags_text == join(",", tags)
    IN IF unexpected_tags(tags) /\ tags_text \notin st.problem_tags
       THEN [st EXCEPT !.problem_tags = @ \cup {tags_text},
                       !.problems = Append(@, [kind |-> "Unexpected tag(s)",
                                               tags |-> tags,
                                               at |-> record.sample_id_s])]
       ELSE st

\* Discard the row based on certain conditions
discard_row(record) ==
    LET tags == tags_of(record)
    IN \/ (Len(tags) > 0 /\ tags[1] \in skip_provider_tags)
       \/ any_in(skip_protocols, record.collection_protocols)
       \/ any_in(skip_projects, record.projects)

\* species_string after the rewrite table, split on whitespace
split_species(record) ==
    LET species_string == record.species[1]
    IN split(IF species_string \in DOMAIN transform_species_strings
             THEN transform_species_strings[species_string]
             ELSE species_string)

\* species_terms[0] raises IndexError on an empty list, before and after
\* the rank marker is deleted
species_raises(record) ==
    LET t == split_species(record)
    IN IF Len(t) = 0 THEN TRUE
       ELSE (t[1] = "genus" \/ t[1] = "subgenus") /\ Len(t) = 1

\* species_terms once a leading "genus" / "subgenus" is deleted
species_terms_of(record) ==
    LET t == split_species(record)
    IN IF t[1] = "genus" \/ t[1] = "subgenus" THEN Tail(t) ELSE t

\* species_check in which an unknown third term is never recorded.
species_check_first_only(record, st) ==
    LET species_terms == species_terms_of(record)
        first_species_term == species_terms[1]
    IN IF /\ first_species_term \notin valid_first_species_terms
          /\ first_species_term \notin st.problem_first_species_terms
       THEN [st EXCEPT !.problem_first_species_terms = @ \cup {first_species_term},
                       !.problems = Append(@, [kind |-> "Unknown first species term",
                                               term |-> first_species_term,
                                               at |-> record.sample_id_s])]
       ELSE st

\* The problems and problem_*_species_terms after the species checks.
species_check(record, st) ==
    LET species_terms == species_terms_of(record)
        first_species_term == species_terms[1]
        st1 == IF /\ first_species_term \notin valid_first_species_terms
                  /\ first_species_term \notin st.problem_first_species_terms
               THEN [st EXCEPT !.problem_first_species_terms = @ \cup {first_species_term},
                               !.problems = Append(@, [kind |-> "Unknown first species term",
                                                       term |-> first_species_term,
                                                       at |-> record.sample_id_s])]
               ELSE st
    IN IF /\ Len(species_terms) >= 3
          /\ species_terms[3] \notin subspecies_terms
          /\ species_terms[3] \notin group_terms
          /\ species_terms[3] \notin st1.problem_third_species_terms
       THEN [st1 EXCEPT !.problem_third_species_terms = @ \cup {species_terms[3]},
                        !.problems = Append(@, [kind |-> "Unknown third species term",
                                                term |-> species_terms[3],
                                                at |-> record.sample_id_s])]
       ELSE st1

\* output_row["scientificName"]
scientificName(species_terms) ==
    species_terms[1]
    \o (IF Len(species_terms) >= 2 THEN " " \o species_terms[2] ELSE "")
    \o (IF Len(species_terms) >= 3 /\ species_terms[3] \in subspecies_terms
        THEN " " \o species_terms[3] ELSE "")

\* output_row["identificationQualifier"]; <<>> when the key is never set,
\* <<text>> when it is
identificationQualifier(species_terms) ==
    LET third == IF /\ Len(species_terms) >= 3
                    /\ species_terms[3] \notin subspecies_terms
                    /\ species_terms[3] \in group_terms
                 THEN <<species_terms[3]>> ELSE <<>>
    IN IF Len(species_terms) >= 3 /\ Len(species_terms) = 4
       THEN IF third = <<>> THEN <<"" \o species_terms[4]>>
                            ELSE <<third[1] \o " " \o species_terms[4]>>
       ELSE third

\* output_row["occurrenceRemarks"]
occurrenceRemarks(record) ==
    LET tags == tags_of(record)
        author_text == IF Len(tags) > 0 THEN " authored by " \o tags[1] ELSE ""
        link0 == "https://vectorbase.org/popbio-map/web/?view=abnd&zoom_level=11"
                 \o "&center=" \o record.geo_coords
        link == IF Len(tags) > 0
                THEN link0 \o "&tag=" \o replace(tags[1], " ", "+")
                ELSE link0 \o join("", [k \in 1..Len(record.projects) |->
                                            "&projectID[]=" \o record.projects[k]])
        generator_text == IF record.exp_citations_ss[1] # ""
                          THEN ", including " \o join("; ", record.exp_citations_ss)
                          ELSE ""
    IN "This record has been curated by VectorBase.org as part of a larger data set"
       \o author_text \o " which can be seen in context at " \o link
       \o ". Please cite VectorBase and the original data generator(s)"
       \o generator_text \o "."

\* The row DictWriter.writerow writes: a key never set is written as "".
output_row(record) ==
    LET species_terms == species_terms_of(record)
        qualifier == identificationQualifier(species_terms)
    IN [occurrenceID |-> record.sample_id_s,
        catalogNumber |-> record.sample_id_s,
        dataGeneralizations |-> join(";", record.projects),
        basisOfRecord |-> "HumanObservation",
        samplingProtocol |-> join(";", record.collection_protocols),
        scientificName |-> scientificName(species_terms),
        identificationQualifier |-> IF qualifier = <<>> THEN "" ELSE qualifier[1],
        occurrenceRemarks |-> occurrenceRemarks(record)]

(***************************************************************************)
(* State machine                                                           *)
(***************************************************************************)
\* The problem collector of make_scan as one value.
collector ==
    [problems |-> problems, problem_tags |-> problem_tags,
     problem_first_species_terms |-> problem_first_species_terms,
     problem_third_species_terms |-> problem_third_species_terms]

set_collector(st) ==
    /\ problems' = st.problems
    /\ problem_tags' = st.problem_tags
    /\ problem_first_species_terms' = st.problem_first_species_terms
    /\ problem_third_species_terms' = st.problem_third_species_terms

Init ==
    /\ pc = "parse_args"
    /\ sample = None
    /\ docs = <<>>
    /\ i = 0
    /\ problems = <<>>
    /\ problem_tags = {}
    /\ problem_first_species_terms = {}
    /\ problem_third_species_terms = {}
    /\ temp = NoFile
    /\ output = OldFile
    /\ stdout = <<>>
    /\ outcome = <<>>

\* parse_args: --sample out of 0..100 raises ValueError (a falsy 0 or None
\* skips the test).
parse_args_raises(s) == s # None /\ s[1] # 0 /\ ~(0 <= s[1] /\ s[1] <= 100)

ParseArgs ==
    /\ pc = "parse_args"
    /\ \E s \in SampleArgs :
          /\ ~parse_args_raises(s)
          /\ sample' = s
    /\ pc' = "make_scan"
    /\ UNCHANGED <<docs, i, problems, problem_tags, problem_first_species_terms,
                   problem_third_species_terms, temp, output, stdout, outcome>>

ParseArgsValueError ==
    /\ pc = "parse_args"
    /\ \E s \in SampleArgs : parse_args_raises(s)
    /\ pc' = "ValueError"
    /\ UNCHANGED <<sample, docs, i, problems, problem_tags,
                   problem_first_species_terms, problem_third_species_terms,
                   temp, output, stdout, outcome>>

\* make_scan up to the loop: the response is loaded, the collector is
\* emptied, the staging file is opened for writing and gets the header.
LoadData ==
    /\ pc = "make_scan"
    /\ \E response \in Responses :
          docs' = [k \in 1..Len(response) |->
                      response[k] @@ [sample_id_s |-> k]]
    /\ problems' = <<>>
    /\ problem_tags' = {}
    /\ problem_first_species_terms' = {}
    /\ problem_third_species_terms' = {}
    /\ temp' = [exists |-> TRUE, header |-> output_rows, rows |-> <<>>]
    /\ i' = 0
    /\ pc' = "loop"
    /\ UNCHANGED <<sample, output, stdout, outcome>>

\* One iteration that ends at the sampling "continue".
SampleDrop ==
    /\ pc = "loop"
    /\ i < Len(docs)
    /\ \E r \in RandomValues : sample_drops(sample, r)
    /\ i' = i + 1
    /\ outcome' = Append(outcome, "sampled out")
    /\ UNCHANGED <<pc, sample, docs, problems, problem_tags,
                   problem_first_species_terms, problem_third_species_terms,
                   temp, output, stdout>>

\* One iteration that ends at the "continue" of the discard conditions.
FilterDrop ==
    /\ pc = "loop"
    /\ i < Len(docs)
    /\ \E r \in RandomValues : ~sample_drops(sample, r)
    /\ LET record == with_defaults(docs[i + 1])
       IN /\ discard_row(record)
          /\ set_collector(tag_check(record, collector))
    /\ i' = i + 1
    /\ outcome' = Append(outcome, "discarded")
    /\ UNCHANGED <<pc, sample, docs, temp, output, stdout>>

\* One iteration in which species_terms[0] raises IndexError: the exception
\* leaves the with block (the staging file is closed as it is) and make_scan.
SpeciesIndexError ==
    /\ pc = "loop"
    /\ i < Len(docs)
    /\ \E r \in RandomValues : ~sample_drops(sample, r)
    /\ LET record == with_defaults(docs[i + 1])
       IN /\ ~discard_row(record)
          /\ species_raises(record)
          /\ set_collector(tag_check(record, collector))
    /\ i' = i + 1
    /\ outcome' = Append(outcome, "IndexError")
    /\ pc' = "IndexError"
    /\ UNCHANGED <<sample, docs, temp, output, stdout>>

\* WriteRow putting the new row in front of the rows written before.
WriteRow_in_front ==
    /\ pc = "loop"
    /\ i < Len(docs)
    /\ \E r \in RandomValues : ~sample_drops(sample, r)
    /\ LET record == with_defaults(docs[i + 1])
       IN /\ ~discard_row(record)
          /\ ~species_raises(record)
          /\ set_collector(species_check(record, tag_check(record, collector)))
          /\ temp' = [temp EXCEPT !.rows = <<output_row(record)>> \o @]
    /\ i' = i + 1
    /\ outcome' = Append(outcome, "written")
    /\ UNCHANGED <<pc, sample, docs, output, stdout>>

\* One iteration that runs to temp_csv.writerow(output_row).
WriteRow ==
    /\ pc = "loop"
    /\ i < Len(docs)
    /\ \E r \in RandomValues : ~sample_drops(sample, r)
    /\ LET record == with_defaults(docs[i + 1])
       IN /\ ~discard_row(record)
          /\ ~species_raises(record)
          /\ set_collector(species_check(record, tag_check(record, collector)))
          /\ temp' = [temp EXCEPT !.rows = Append(@, output_row(record))]
    /\ i' = i + 1
    /\ outcome' = Append(outcome, "written")
    /\ UNCHANGED <<pc, sample, docs, output, stdout>>

\* The loop is exhausted and the staging file is closed.
EndLoop ==
    /\ pc = "loop"
    /\ i = Len(docs)
    /\ pc' = "check"
    /\ UNCHANGED <<sample, docs, i, problems, problem_tags,
                   problem_first_species_terms, problem_third_species_terms,
                   temp, output, stdout, outcome>>

\* if problems: the problems are printed ("\n".join(problems) is one print of
\* all the lines), nothing is done to the files.
ReportProblems ==
    /\ pc = "check"
    /\ problems # <<>>
    /\ stdout' = stdout \o <<[print |-> "text", text |-> "Data problems:"],
                            [print |-> "lines", lines |-> problems],
                            [print |-> "text", text |-> "Data problems found. Exiting."]>>
    /\ pc' = "done"
    /\ UNCHANGED <<sample, docs, i, problems, problem_tags,
                   problem_first_species_terms, problem_third_species_terms,
                   temp, output, outcome>>

\* Replace taken whatever the problems list holds.
Replace_unconditional ==
    /\ pc = "check"
    /\ output' = temp
    /\ temp' = NoFile
    /\ stdout' = Append(stdout, [print |-> "text", text |-> "Success!"])
    /\ pc' = "done"
    /\ UNCHANGED <<sample, docs, i, problems, problem_tags,
                   problem_first_species_terms, problem_third_species_terms,
                   outcome>>

\* else: os.replace(temp, output)
Replace ==
    /\ pc = "check"
    /\ problems = <<>>
    /\ output' = temp
    /\ temp' = NoFile
    /\ stdout' = Append(stdout, [print |-> "text", text |-> "Success!"])
    /\ pc' = "done"
    /\ UNCHANGED <<sample, docs, i, problems, problem_tags,
                   problem_first_species_terms, problem_third_species_terms,
                   outcome>>

Next ==
    \/ ParseArgs
    \/ ParseArgsValueError
    \/ LoadData
    \/ SampleDrop
    \/ FilterDrop
    \/ SpeciesIndexError
    \/ WriteRow
    \/ EndLoop
    \/ ReportProblems
    \/ Replace

Spec == Init /\ [][Next]_vars

(***************************************************************************)
(* Vocabulary of the properties                                            *)
(***************************************************************************)
\* The final output path holds what it held before the run.
Untouched == output = OldFile

\* The final output path holds a file written by this run.
Promoted == output.exists /\ output.header = output_rows

\* make_scan has ended, by returning or by an exception.
Ended == pc \in {"done", "IndexError"}

\* The records the loop has taken so far.
Taken == 1..i

\* Record k went through the tag check (it was not dropped by sampling).
TagChecked(k) == k \in Taken /\ outcome[k] # "sampled out"

\* Record k went through the species checks.
SpeciesChecked(k) == k \in Taken /\ outcome[k] = "written"

\* The tags of record k that are left once the discard-listed ones are removed.
RemainingTags(k) ==
    IF "tags_ss" \in DOMAIN docs[k]
    THEN SelectSeq(docs[k].tags_ss, LAMBDA t : t \notin remove_tags)
    ELSE <<>>

\* Record k has an unexpected tag combination.
TagAnomaly(k) ==
    LET R == RemainingTags(k)
    IN Len(R) > 1 \/ (Len(R) = 1 /\ R[1] \notin valid_provider_tags)

\* The text that keys the tag problem of record k.
TagKey(k) == join(",", RemainingTags(k))

\* The terms of the species designation of record k, after the rewrite table
\* and without a leading rank marker.
Terms(k) ==
    LET s == docs[k].species[1]
        t == split(IF s = "dirus species complex" THEN "Anopheles dirus complex"
                   ELSE IF s = "Anopheles gambiae x Anopheles coluzzii"
                        THEN "Anopheles gambiae sensu lato" ELSE s)
    IN IF Len(t) > 0 /\ t[1] \in {"genus", "subgenus"} THEN Tail(t) ELSE t

\* Record k has a genus term outside the genus vocabulary.
GenusOffending(t) == Len(t) >= 1 /\ t[1] \notin valid_first_species_terms
GenusAnomaly(k) == GenusOffending(Terms(k))

\* Record k has a third term outside both third-term vocabularies.
ThirdOffending(t) ==
    Len(t) >= 3 /\ t[3] \notin subspecies_terms /\ t[3] \notin group_terms
ThirdAnomaly(k) == ThirdOffending(Terms(k))

\* The filter excludes record k.
Filtered(k) ==
    LET protocols == IF "collection_protocols" \in DOMAIN docs[k]
                     THEN docs[k].collection_protocols ELSE <<>>
        projects == IF "projects" \in DOMAIN docs[k] THEN docs[k].projects ELSE <<>>
        R == RemainingTags(k)
    IN \/ \E n \in 1..Len(protocols) : protocols[n] \in skip_protocols
       \/ \E n \in 1..Len(projects) : projects[n] \in skip_projects
       \/ (Len(R) > 0 /\ R[1] \in skip_provider_tags)

\* The entries of the problems list, by category.
Entries(kind) == {n \in 1..Len(problems) : problems[n].kind = kind}
TagEntries == Entries("Unexpected tag(s)")
FirstEntries == Entries("Unknown first species term")
ThirdEntries == Entries("Unknown third species term")

\* The offending value an entry is keyed by.
KeyOf(n) ==
    IF n \in TagEntries THEN join(",", problems[n].tags) ELSE problems[n].term

\* No two entries of one category have the same key.
NoRepeatedEntry ==
    \A m, n \in 1..Len(problems) :
        (m # n /\ problems[m].kind = problems[n].kind) => KeyOf(m) # KeyOf(n)

\* The smallest element of a non-empty set of record numbers.
First(S) == CHOOSE k \in S : \A j \in S : k <= j

(***************************************************************************)
(* C1                                                                      *)
(***************************************************************************)
\* C1: when make_scan is through its end-of-run check, the final output has
\* been replaced by the staging file if and only if the problems list is
\* empty; before that check, and in every state in which the problems list
\* is non-empty, the final output path holds what it held before the run.
C1_PromotedIffNoProblems ==
    /\ pc = "done" => (Promoted <=> problems = <<>>)
    /\ pc = "done" => (Promoted \/ Untouched)
    /\ pc # "done" => Untouched
    /\ problems # <<>> => Untouched

\* A run with a problem has gone through the end-of-run check over an
\* existing final output, after writing a row to the staging file.
C1_Witness ==
    /\ pc = "done"
    /\ problems # <<>>
    /\ output = OldFile
    /\ Len(temp.rows) > 0

(***************************************************************************)
(* C2                                                                      *)
(***************************************************************************)
\* Record k shows the offending value of entry n, in the category of n.
Exhibits(k, n) ==
    IF n \in TagEntries THEN TagAnomaly(k) /\ TagKey(k) = KeyOf(n)
    ELSE IF n \in FirstEntries THEN GenusAnomaly(k) /\ Terms(k)[1] = KeyOf(n)
    ELSE ThirdAnomaly(k) /\ Terms(k)[3] = KeyOf(n)

\* Record k went through the check of the category of entry n.
Checked(k, n) ==
    IF n \in TagEntries THEN TagChecked(k) ELSE SpeciesChecked(k)

\* C2 as stated: at most one entry per offending value within a category,
\* and each entry names the first record of the input that has the value.
C2_Original ==
    /\ NoRepeatedEntry
    /\ \A n \in 1..Len(problems) :
          problems[n].at = First({k \in 1..Len(docs) : Exhibits(k, n)})

\* C2: at most one entry per offending value within a category, and each
\* entry names the first record, in input order, that has the value among the
\* records that went through the check of that category (tags: the records
\* not dropped by sampling; species terms: the records that were neither
\* dropped by sampling nor discarded by the filter).
C2_OneEntryNamingFirstChecked ==
    /\ NoRepeatedEntry
    /\ \A n \in 1..Len(problems) :
          problems[n].at = First({k \in Taken : Checked(k, n) /\ Exhibits(k, n)})

\* Two records went through a check with the same offending value.
C2_Witness ==
    \E n \in 1..Len(problems) : \E j, k \in Taken :
        /\ j < k
        /\ Checked(j, n) /\ Exhibits(j, n)
        /\ Checked(k, n) /\ Exhibits(k, n)

(***************************************************************************)
(* C3                                                                      *)
(***************************************************************************)
\* The keys of the entries of one category.
Keys(S) == {KeyOf(n) : n \in S}

\* C3 as stated: when the batch holds a record with a disallowed genus term,
\* an unknown third term or an unexpected tag combination, the run ends with
\* the final output untouched and with exactly one entry for each distinct
\* offending value of the batch.
C3_Original ==
    LET All == 1..Len(docs)
    IN (pc = "done" /\ \E k \in All : GenusAnomaly(k) \/ ThirdAnomaly(k) \/ TagAnomaly(k))
       => /\ Untouched
          /\ NoRepeatedEntry
          /\ Keys(TagEntries) = {TagKey(k) : k \in {j \in All : TagAnomaly(j)}}
          /\ Keys(FirstEntries) = {Terms(k)[1] : k \in {j \in All : GenusAnomaly(j)}}
          /\ Keys(ThirdEntries) = {Terms(k)[3] : k \in {j \in All : ThirdAnomaly(j)}}

\* C3: at every point of the run the problems list holds exactly one entry
\* for each distinct offending value among the records that went through the
\* check of its category (unexpected tags: the records not dropped by
\* sampling; genus and third terms: the records neither dropped by sampling
\* nor discarded by the filter), and while the list is non-empty the final
\* output is untouched; a run that passes its end-of-run check with a
\* non-empty list has printed the list and replaced nothing.
C3_OneEntryPerCheckedValue ==
    /\ NoRepeatedEntry
    /\ Keys(TagEntries) = {TagKey(k) : k \in {j \in Taken : TagChecked(j) /\ TagAnomaly(j)}}
    /\ LET checked == {Terms(k) : k \in {j \in Taken : SpeciesChecked(j)}}
       IN /\ Keys(FirstEntries) = {t[1] : t \in {u \in checked : GenusOffending(u)}}
          /\ Keys(ThirdEntries) = {t[3] : t \in {u \in checked : ThirdOffending(u)}}
    /\ problems # <<>> => Untouched
    /\ (pc = "done" /\ problems # <<>>) =>
           \E m \in 1..Len(stdout) :
               stdout[m].print = "lines" /\ stdout[m].lines = problems

\* A rejected run over a batch with two records of the same unknown genus
\* term, one of which was discarded by the filter.
C3_Witness ==
    /\ pc = "done"
    /\ problems # <<>>
    /\ \E j, k \in Taken :
          /\ j # k
          /\ GenusAnomaly(j) /\ GenusAnomaly(k) /\ Terms(j)[1] = Terms(k)[1]
          /\ outcome[j] = "discarded" /\ outcome[k] = "written"

(***************************************************************************)
(* C4                                                                      *)
(***************************************************************************)
\* Record k has no vocabulary or tag anomaly: its designation has a genus
\* term of the genus vocabulary, its third term, if any, is of one of the
\* third-term vocabularies, and its tags are as expected.
Regular(k) ==
    LET t == Terms(k)
    IN /\ Len(t) >= 1
       /\ ~GenusOffending(t)
       /\ ~ThirdOffending(t)
       /\ ~TagAnomaly(k)

\* The records among 1..n that pass the filter and the sampling decision,
\* in input order.
RECURSIVE Retained(_)
Retained(n) ==
    IF n = 0 THEN <<>>
    ELSE Retained(n - 1)
         \o (IF ~Filtered(n) /\ outcome[n] # "sampled out" THEN <<n>> ELSE <<>>)

\* The identifiers of the data rows of a file, in file order.
RowIds(file) == [n \in 1..Len(file.rows) |-> file.rows[n].occurrenceID]

\* C4: over a batch without vocabulary or tag anomaly no exception is raised,
\* the staging rows are at every point the records taken so far that pass the
\* filter and the sampling decision, one row each, in input order, and the
\* run that has passed its end-of-run check is committed with those rows.
C4_CommittedRowsAreRetainedInOrder ==
    (\A k \in 1..Len(docs) : Regular(k)) =>
        /\ pc # "IndexError"
        /\ pc = "loop" => RowIds(temp) = Retained(i)
        /\ pc = "done" => /\ Promoted
                          /\ ~temp.exists
                          /\ RowIds(output) = Retained(Len(docs))

\* A committed run whose batch had a record discarded by the filter, before
\* a written one.
C4_Witness ==
    /\ pc = "done"
    /\ Promoted
    /\ \A k \in 1..Len(docs) : Regular(k)
    /\ \E j, k \in 1..Len(docs) :
          j < k /\ outcome[j] = "discarded" /\ outcome[k] = "written"

(***************************************************************************)
(* C5                                                                      *)
(***************************************************************************)
\* The data rows written by the run, staged or promoted.
WrittenRows ==
    IF temp.exists THEN temp.rows ELSE IF Promoted THEN output.rows ELSE <<>>

\* The row written for record k.
RowOf(k) ==
    LET n == CHOOSE m \in 1..Len(WrittenRows) : WrittenRows[m].occurrenceID = k
    IN WrittenRows[n]

\* The rule for the scientific name: genus term, second term, and the third
\* term when it is a subspecies term.
RuleScientificName(t) ==
    IF Len(t) = 1 THEN t[1]
    ELSE IF Len(t) >= 3 /\ t[3] \in subspecies_terms
         THEN t[1] \o " " \o t[2] \o " " \o t[3]
         ELSE t[1] \o " " \o t[2]

\* The rule for the qualifier: the third term when it is a group term, then
\* the fourth term whenever there is one; "" when neither sets it.
RuleQualifier(t) ==
    LET third == Len(t) >= 3 /\ t[3] \notin subspecies_terms /\ t[3] \in group_terms
    IN IF Len(t) >= 4
       THEN IF third THEN t[3] \o " " \o t[4] ELSE t[4]
       ELSE IF third THEN t[3] ELSE ""

\* C5: the species fields of every written row follow the rule, for every
\* designation of one to five terms.
C5_SpeciesFieldsFollowRule ==
    \A k \in Taken :
        (outcome[k] = "written" /\ Len(Terms(k)) \in 1..5) =>
            /\ RowOf(k).scientificName = RuleScientificName(Terms(k))
            /\ RowOf(k).identificationQualifier = RuleQualifier(Terms(k))

(***************************************************************************)
(* C6                                                                      *)
(***************************************************************************)
\* The remarks text with a given attribution clause and link query.
RemarksText(k, clause, query) ==
    "This record has been curated by VectorBase.org as part of a larger data set"
    \o clause
    \o " which can be seen in context at "
    \o "https://vectorbase.org/popbio-map/web/?view=abnd&zoom_level=11&center="
    \o docs[k].geo_coords \o query
    \o ". Please cite VectorBase and the original data generator(s)."

\* The link query of a record without attributing provider.
ProjectQuery(k) ==
    IF "projects" \in DOMAIN docs[k]
    THEN join("", [n \in 1..Len(docs[k].projects) |->
                      "&projectID[]=" \o docs[k].projects[n]])
    ELSE "&projectID[]="

\* Some entry of the problems list was recorded at record k for its tags.
TagEntryAt(k) == \E n \in TagEntries : problems[n].at = k

\* C6: for every record that went through the tag check: without remaining
\* tag, or with one remaining tag of the provider vocabulary, the record
\* adds no tag problem; with one remaining tag outside the vocabulary, or
\* with several, the problems list holds an 'unexpected tag' entry for the
\* joined text of its remaining tags; a written row names the first
\* remaining tag as provider in text and link, and has no attribution when
\* nothing remains.
C6_TagsDecideProblemAndProvider ==
    \A k \in Taken : TagChecked(k) =>
        LET R == RemainingTags(k)
        IN /\ (Len(R) = 0 \/ (Len(R) = 1 /\ R[1] \in valid_provider_tags))
                  => ~TagEntryAt(k)
           /\ ((Len(R) = 1 /\ R[1] \notin valid_provider_tags) \/ Len(R) > 1)
                  => /\ join(",", R) \in problem_tags
                     /\ \E n \in TagEntries :
                           KeyOf(n) = join(",", R) /\ problems[n].at <= k
           /\ (outcome[k] = "written" /\ Len(R) = 0)
                  => RowOf(k).occurrenceRemarks = RemarksText(k, "", ProjectQuery(k))
           /\ (outcome[k] = "written" /\ Len(R) > 0)
                  => RowOf(k).occurrenceRemarks =
                         RemarksText(k, " authored by " \o R[1],
                                     "&tag=" \o replace(R[1], " ", "+"))

\* Rows were written for a record whose tags are all discard-listed and for
\* a record with one provider tag next to a discard-listed one, and a tag
\* problem was recorded for another record.
C6_Witness ==
    /\ \E k \in Taken :
          /\ outcome[k] = "written"
          /\ "tags_ss" \in DOMAIN docs[k]
          /\ Len(docs[k].tags_ss) > Len(RemainingTags(k))
    /\ \E k \in Taken : TagEntryAt(k)

(***************************************************************************)
(* C7                                                                      *)
(***************************************************************************)
\* C7 as stated: at rate 100 sampling drops no record and every record that
\* passes the filter is among the rows of the run that has ended; at rate 0
\* every record is dropped, no row is written, no problem is recorded, and
\* the run is committed with the header only.  It is stated over the batches
\* in which every species designation has at least one term.
C7_SamplingAllOrNothing ==
    (\A k \in 1..Len(docs) : Len(split(docs[k].species[1])) >= 1) =>
    /\ sample = <<100>> =>
          /\ \A k \in Taken : outcome[k] # "sampled out"
          /\ Ended => \A k \in 1..Len(docs) :
                          ~Filtered(k) =>
                              \E n \in 1..Len(WrittenRows) :
                                  WrittenRows[n].occurrenceID = k
    /\ sample = <<0>> =>
          /\ \A k \in Taken : outcome[k] = "sampled out"
          /\ WrittenRows = <<>>
          /\ problems = <<>>
          /\ pc # "IndexError"
          /\ pc = "done" => Promoted /\ output.rows = <<>>

(***************************************************************************)
(* C8                                                                      *)
(***************************************************************************)
\* C8: a record that the filter excludes adds no entry to the problems list,
\* and a run whose anomalous records are all excluded ones is committed.
C8_ExcludedRecordAddsNoProblem ==
    /\ \A n \in 1..Len(problems) : ~Filtered(problems[n].at)
    /\ (pc = "done" /\ \A k \in 1..Len(docs) : Regular(k) \/ Filtered(k))
           => Promoted

(***************************************************************************)
(* C9                                                                      *)
(***************************************************************************)
\* C9: when every species designation has at least one whitespace-separated
\* term, no exception leaves the loop.
C9_SpeciesNeverRaises ==
    (\A k \in 1..Len(docs) : Len(split(docs[k].species[1])) >= 1)
        => pc # "IndexError"

(***************************************************************************)
(* C10                                                                     *)
(***************************************************************************)
\* C10: once make_scan has returned with problems, the staging file no
\* longer exists and the problems have been printed.
C10_RejectedRunDeletesStaging ==
    (pc = "done" /\ problems # <<>>) =>
        /\ ~temp.exists
        /\ \E m \in 1..Len(stdout) :
              stdout[m].print = "lines" /\ stdout[m].lines = problems

====
